---- MODULE Spec2Model ----
(***************************************************************************)
(* The Huber atom of cvxpy (cvxpy/atoms/elementwise/huber.py): its         *)
(* construction and validation, numeric value, monotonicity declarations,  *)
(* subgradient, and its graph reduction to  n^2 + 2M|s|,  x = n + s.       *)
(*                                                                         *)
(* Numbers are integers.  A shape is a pair <<rows, cols>>; a numeric      *)
(* value of an expression is the sequence of its entries (column-major).   *)
(***************************************************************************)
EXTENDS Integers, Sequences, FiniteSets, TLC

\* ------------------------------------------------------------- bounds
\* Atoms constructed in one run.
MaxAtoms == 2
\* Rows of an argument (arguments are column vectors of 1..MaxRows entries).
MaxRows == 2
\* Entries of a numeric argument value range over -MaxVal..MaxVal.
MaxVal == 2
\* Numeric values of M range up to MaxM.
MaxM == 2

VARIABLES
    counter,      \* the id allocator behind lu.create_var
    atoms,        \* the huber atoms constructed so far, in order
    param_value,  \* the current value of the Parameter P
    last,         \* the outcome of the last constructor call
    frames,       \* frames[i]: the graph_implementation call for atoms[i]
    fn            \* one atom with concrete argument values, and what was computed

vars == <<counter, atoms, param_value, last, frames, fn>>

\* ------------------------------------------------------ small helpers
Abs(v) == IF v < 0 THEN -v ELSE v

Sign(v) == IF v > 0 THEN 1 ELSE IF v < 0 THEN -1 ELSE 0

Min2(a, b) == IF a <= b THEN a ELSE b

SetMin(S) == CHOOSE m \in S : \A o \in S : m <= o

Size(shape) == shape[1] * shape[2]

\* ------------------------------------------------ expressions (leaves)
\* An expression handed to huber as x or M.  kind is "Number" for a raw
\* Python number, "Constant", "Parameter" or "Variable"; value is the literal
\* of a Number/Constant; id names a Parameter/Variable; nonneg/nonpos are the
\* declared sign attributes of a Parameter/Variable.
Leaf(kind, value, id, shape, nonneg, nonpos) ==
    [kind |-> kind, value |-> value, id |-> id, shape |-> shape,
     nonneg |-> nonneg, nonpos |-> nonpos]

\* The leaves that exist before any atom is built.  Their ids were drawn from
\* the same allocator as every later id: a Variable X(r) with r rows for each
\* r, the Parameters P (declared nonneg) and Q (no declared sign), and a
\* Variable V that a caller may pass as M.
X(r, nonneg, nonpos) == Leaf("Variable", 0, r, <<r, 1>>, nonneg, nonpos)

PId == MaxRows + 1

QId == MaxRows + 2

VId == MaxRows + 3

FirstFreeId == MaxRows + 4

ParamP == Leaf("Parameter", 0, PId, <<1, 1>>, TRUE, FALSE)

ParamQ == Leaf("Parameter", 0, QId, <<1, 1>>, FALSE, FALSE)

VarV == Leaf("Variable", 0, VId, <<1, 1>>, TRUE, FALSE)

Number(v) == Leaf("Number", v, 0, <<1, 1>>, FALSE, FALSE)

\* A constant column vector (every entry v): a non-scalar M.
ConstVec(v) == Leaf("Constant", v, 0, <<2, 1>>, FALSE, FALSE)

\* Expression.is_nonneg / is_nonpos: a Constant's sign comes from its value,
\* a Parameter's or Variable's from its declared attribute.
is_nonneg(e) == IF e.kind \in {"Number", "Constant"} THEN e.value >= 0 ELSE e.nonneg

is_nonpos(e) == IF e.kind \in {"Number", "Constant"} THEN e.value <= 0 ELSE e.nonpos

\* Expression.is_constant: no optimization variable occurs in it.
is_constant(e) == e.kind # "Variable"

is_scalar(e) == Size(e.shape) = 1

\* Atom.cast_to_const: a raw number is wrapped in a Constant, an Expression
\* is passed through.
cast_to_const(e) == IF e.kind = "Number" THEN [e EXCEPT !.kind = "Constant"] ELSE e

\* M.value: the literal of a Constant, the current value of a Parameter.
ValueOf(M, pv) == IF M.kind = "Parameter" THEN pv ELSE M.value

\* ------------------------------------------------------------ the atom
\* Mutants of validate_arguments: the scalar check, the sign check left out.
validate_arguments_any_shape(M) == is_nonneg(M) /\ is_constant(M)

validate_arguments_any_sign(M) == is_constant(M) /\ is_scalar(M)

\* huber.validate_arguments: TRUE when it returns, FALSE when it raises
\* ValueError("M must be a non-negative scalar constant.").
validate_arguments(M) == is_nonneg(M) /\ is_constant(M) /\ is_scalar(M)

\* The exception validate_arguments raises.
ValidationError == "ValueError"

\* Atom.__init__(self, x): binds the argument, runs the validation gate and
\* fixes the shape (Elementwise: the argument's).  The result is the atom, or
\* the exception raised, in which case the caller gets no instance.
Atom_init(self, x) ==
    LET bound == [self EXCEPT !.args = <<x>>, !.shape = x.shape]
    IN  IF validate_arguments(bound.M)
        THEN [raised |-> "None", atom |-> <<bound>>]
        ELSE [raised |-> ValidationError, atom |-> <<>>]

\* huber.__init__(x, M): self.M = cast_to_const(M); super().__init__(x).
huber_init(x, M) ==
    Atom_init([args |-> <<>>, M |-> cast_to_const(M), shape |-> <<0, 0>>], x)

\* huber.get_data
get_data(self) == <<self.M>>

\* scipy.special.huber(delta, r), in halves: 2 * huber(delta, r).
\* huber is r^2/2 for |r| <= delta and delta*(|r| - delta/2) beyond
\* (infinite, here -1, for delta < 0).
scipy_special_huber_halves(delta, r) ==
    IF delta < 0 THEN -1
    ELSE IF Abs(r) <= delta THEN r * r
    ELSE delta * (2 * Abs(r) - delta)

\* Mutant of numeric: the factor 2 forgotten.
numeric_unscaled(self, pv, values) ==
    [j \in 1..Len(values[1]) |->
        scipy_special_huber_halves(ValueOf(self.M, pv), values[1][j]) \div 2]

\* huber.numeric(values): 2*scipy.special.huber(M.value, values[0]),
\* entry by entry (Elementwise.numpy_numeric).
numeric(self, pv, values) ==
    [j \in 1..Len(values[1]) |->
        (2 * scipy_special_huber_halves(ValueOf(self.M, pv), values[1][j])) \div 2]

\* huber.sign_from_args
sign_from_args(self) == <<TRUE, FALSE>>

\* Mutant of is_incr: non-decreasing claimed for every argument.
is_incr_always(self, idx) == TRUE

\* huber.is_incr / huber.is_decr (idx counts from 0 in the source).
is_incr(self, idx) == is_nonneg(self.args[idx + 1])

is_decr(self, idx) == is_nonpos(self.args[idx + 1])

\* Elementwise.elemwise_grad_to_diag: the rows x cols matrix with value on the
\* diagonal, G[j][k] = d out[k] / d arg[j].
elemwise_grad_to_diag(value, rows, cols) ==
    [j \in 1..rows |-> [k \in 1..cols |-> IF j = k THEN value[j] ELSE 0]]

\* Mutant of _grad: maximum for minimum.
_grad_max(self, pv, values) ==
    LET rows == Size(self.args[1].shape)
        cols == Size(self.shape)
        max_val == [j \in 1..rows |->
                      IF Abs(values[1][j]) >= ValueOf(self.M, pv)
                      THEN Abs(values[1][j]) ELSE ValueOf(self.M, pv)]
        grad_vals == [j \in 1..rows |-> 2 * (Sign(values[1][j]) * max_val[j])]
    IN  <<elemwise_grad_to_diag(grad_vals, rows, cols)>>

\* huber._grad(values)
_grad(self, pv, values) ==
    LET rows == Size(self.args[1].shape)
        cols == Size(self.shape)
        min_val == [j \in 1..rows |-> Min2(Abs(values[1][j]), ValueOf(self.M, pv))]
        grad_vals == [j \in 1..rows |-> 2 * (Sign(values[1][j]) * min_val[j])]
    IN  <<elemwise_grad_to_diag(grad_vals, rows, cols)>>

\* ------------------------------------------------- lin_ops / lin_utils
\* A LinOp: its type, its shape, its argument LinOps and its data (the id of
\* a variable or parameter, the value of a constant).
LinOp(type, shape, args, data) ==
    [type |-> type, shape |-> shape, args |-> args, data |-> data]

\* lu.create_var(shape) with the id the allocator hands out.
create_var(shape, var_id) == LinOp("variable", shape, <<>>, var_id)

\* lu.create_param(value, shape): a reference to the Parameter object.
create_param(param, shape) == LinOp("param", shape, <<>>, param.id)

\* lu.create_const(value, shape)
create_const(value, shape) == LinOp("scalar_const", shape, <<>>, value)

\* lu.sum_expr(operators)
sum_expr(operators) == LinOp("sum", operators[1].shape, operators, 0)

\* lu.mul_expr(lh_op, rh_op): lh_op is the (constant) left factor.
mul_expr(lh_op, rh_op) == LinOp("mul", rh_op.shape, <<lh_op, rh_op>>, 0)

\* A constraint between two LinOps: "eq" lhs = rhs, "leq" lhs <= rhs,
\* "sq_leq" lhs^2 <= rhs (the cone form of the square's epigraph).
Constr(ctype, lhs, rhs) == [ctype |-> ctype, lhs |-> lhs, rhs |-> rhs]

\* lu.create_eq(lh_op, rh_op)
create_eq(lh_op, rh_op) == Constr("eq", lh_op, rh_op)

\* lu.create_leq(lh_op, rh_op)
create_leq(lh_op, rh_op) == Constr("leq", lh_op, rh_op)

\* power.graph_implementation([x], shape, (2, w)): a fresh epigraph variable t
\* with x^2 <= t.
power_graph_implementation(arg_objs, shape, var_id) ==
    LET t == create_var(shape, var_id)
    IN  [expr |-> t, constr |-> <<Constr("sq_leq", arg_objs[1], t)>>]

\* abs.graph_implementation([x], shape): a fresh epigraph variable t with
\* -t <= x and x <= t.
abs_graph_implementation(arg_objs, shape, var_id) ==
    LET t == create_var(shape, var_id)
        zero == create_const(0, <<1, 1>>)
    IN  [expr |-> t,
         constr |-> <<create_leq(zero, sum_expr(<<arg_objs[1], t>>)),
                      create_leq(arg_objs[1], t)>>]

\* ------------------------------------------ huber.graph_implementation
\* The call is a frame of locals and a position pc; each step below is the
\* code up to and including the next draw from the id allocator.
NoOp == LinOp("none", <<0, 0>>, <<>>, 0)

\* No call yet.
IdleFrame ==
    [pc |-> "idle", x |-> NoOp, shape |-> <<0, 0>>, data |-> Number(0),
     n |-> NoOp, s |-> NoOp, two |-> NoOp, M |-> NoOp,
     n2 |-> NoOp, constr_sq |-> <<>>, abs_s |-> NoOp, constr_abs |-> <<>>,
     obj |-> NoOp, constraints |-> <<>>, seen |-> 0]

\* Entry: M = data[0]; x = arg_objs[0].
gi_enter(arg_objs, shape, data) ==
    [pc |-> "n", x |-> arg_objs[1], shape |-> shape, data |-> data[1],
     n |-> NoOp, s |-> NoOp, two |-> NoOp, M |-> NoOp,
     n2 |-> NoOp, constr_sq |-> <<>>, abs_s |-> NoOp, constr_abs |-> <<>>,
     obj |-> NoOp, constraints |-> <<>>, seen |-> 0]

\* n = lu.create_var(shape)
gi_create_n(f, var_id) == [f EXCEPT !.pc = "s", !.n = create_var(f.shape, var_id)]

\* Mutant of gi_M_term: the Parameter's current value embedded as a literal.
gi_M_term_eager(M, pv) == create_const(ValueOf(M, pv), <<1, 1>>)

\* The M term: a reference to the Parameter, or the literal value of a constant.
gi_M_term(M, pv) ==
    IF M.kind = "Parameter"
    THEN create_param(M, <<1, 1>>)
    ELSE create_const(ValueOf(M, pv), <<1, 1>>)

\* Mutant of gi_create_s: s takes the id of n instead of a fresh one.
gi_create_s_reused(f, var_id, pv) ==
    [f EXCEPT !.pc = "sq", !.s = create_var(f.shape, f.n.data),
              !.two = create_const(2, <<1, 1>>),
              !.M = gi_M_term(f.data, pv),
              !.seen = IF f.data.kind = "Parameter" THEN pv ELSE 0]

\* s = lu.create_var(shape); two = ...; M = ...
\* (For a Parameter M, seen records the Parameter's value at this moment, for
\* the record only: no later step reads it.)
gi_create_s(f, var_id, pv) ==
    [f EXCEPT !.pc = "sq", !.s = create_var(f.shape, var_id),
              !.two = create_const(2, <<1, 1>>),
              !.M = gi_M_term(f.data, pv),
              !.seen = IF f.data.kind = "Parameter" THEN pv ELSE 0]

\* n2, constr_sq = power.graph_implementation([n], shape, (2, (1/2, 1/2)))
gi_square(f, var_id) ==
    LET r == power_graph_implementation(<<f.n>>, f.shape, var_id)
    IN  [f EXCEPT !.pc = "abs", !.n2 = r.expr, !.constr_sq = r.constr]

\* Mutants of gi_objective: the factor two, the factor M forgotten.
gi_objective_no_two(n2, two, M, abs_s) == sum_expr(<<n2, mul_expr(M, abs_s)>>)

gi_objective_no_M(n2, two, M, abs_s) == sum_expr(<<n2, mul_expr(two, abs_s)>>)

\* obj = n2 + 2*(M*abs_s)
gi_objective(n2, two, M, abs_s) ==
    sum_expr(<<n2, mul_expr(two, mul_expr(M, abs_s))>>)

\* Mutant of gi_constraints: the two sub-lists in the other order.
gi_constraints_swapped(constr_sq, constr_abs, x, n, s) ==
    Append(constr_abs \o constr_sq, create_eq(x, sum_expr(<<n, s>>)))

\* constraints = constr_sq + constr_abs; constraints.append(x == n + s)
gi_constraints(constr_sq, constr_abs, x, n, s) ==
    Append(constr_sq \o constr_abs, create_eq(x, sum_expr(<<n, s>>)))

\* abs_s, constr_abs = abs.graph_implementation([s], shape), and the rest of
\* the body up to the return.
gi_finish(f, var_id) ==
    LET r == abs_graph_implementation(<<f.s>>, f.shape, var_id)
    IN  [f EXCEPT !.pc = "done", !.abs_s = r.expr, !.constr_abs = r.constr,
                  !.obj = gi_objective(f.n2, f.two, f.M, r.expr),
                  !.constraints = gi_constraints(f.constr_sq, r.constr, f.x, f.n, f.s)]

\* The whole call, run without interruption from allocator state c: the
\* frame at the return; the allocator then stands at c + 4.
graph_implementation(arg_objs, shape, data, pv, c) ==
    gi_finish(gi_square(gi_create_s(gi_create_n(gi_enter(arg_objs, shape, data), c),
                                    c + 1, pv), c + 2), c + 3)

\* The LinExpr of a leaf argument: its variable.
LinExprOf(x) == create_var(x.shape, x.id)

\* ------------------------------------- the meaning of a reduced graph
\* The value of one entry of a LinOp, given the value env[id] of that entry
\* of every variable and the current value pv of the Parameter.
RECURSIVE Eval(_, _, _)
RECURSIVE EvalSum(_, _, _, _)
EvalSum(args, i, env, pv) ==
    IF i > Len(args) THEN 0 ELSE Eval(args[i], env, pv) + EvalSum(args, i + 1, env, pv)

Eval(e, env, pv) ==
    CASE e.type = "variable" -> env[e.data]
      [] e.type = "scalar_const" -> e.data
      [] e.type = "param" -> pv
      [] e.type = "sum" -> EvalSum(e.args, 1, env, pv)
      [] e.type = "mul" -> Eval(e.args[1], env, pv) * Eval(e.args[2], env, pv)

RECURSIVE VarsOf(_)
VarsOf(e) ==
    IF e.type = "variable" THEN {e.data}
    ELSE UNION {VarsOf(e.args[i]) : i \in 1..Len(e.args)}

Holds(c, env, pv) ==
    LET l == Eval(c.lhs, env, pv)
        r == Eval(c.rhs, env, pv)
    IN  CASE c.ctype = "eq" -> l = r
          [] c.ctype = "leq" -> l <= r
          [] c.ctype = "sq_leq" -> l * l <= r

\* env satisfies every constraint of cs.
Sat(cs, env, pv) == \A i \in 1..Len(cs) : Holds(cs[i], env, pv)

\* The constraints of cs that mention only variables of ids, and one not of old.
Within(cs, ids, old) ==
    SelectSeq(cs, LAMBDA c :
        LET vs == VarsOf(c.lhs) \cup VarsOf(c.rhs)
        IN  vs \subseteq ids /\ ~(vs \subseteq old))

\* The assignments of S extended by a value of variable id out of range, as
\* far as the constraints that can now be decided admit.
Extend(S, bound, id, range, cs, pv) ==
    LET now == Within(cs, bound \cup {id}, bound)
    IN  UNION {{e2 \in {e @@ (id :> v) : v \in range} : Sat(now, e2, pv)} : e \in S}

\* The assignments of one entry of x, n, s and the two epigraph variables
\* that the constraints of frame f admit when that entry of x is xval: n
\* ranges over -MaxVal..MaxVal, s over every difference, and the epigraph
\* variables over everything the constraints can force.
Feasible(f, xval, pv) ==
    LET cs == f.constraints
        xi == f.x.data
        ni == f.n.data
        si == f.s.data
        ti == f.n2.data
        S0 == {(xi :> xval)}
        S1 == Extend(S0, {xi}, ni, -MaxVal..MaxVal, cs, pv)
        S2 == Extend(S1, {xi, ni}, si, -(2 * MaxVal)..(2 * MaxVal), cs, pv)
        S3 == Extend(S2, {xi, ni, si}, ti, -1..(MaxVal * MaxVal), cs, pv)
    IN  Extend(S3, {xi, ni, si, ti}, f.abs_s.data, -1..(2 * MaxVal), cs, pv)

\* The optimal value of the reduced problem, entry by entry:
\* minimize obj subject to the constraints, x fixed.
OptimalValue(f, xvalue, pv) ==
    [j \in 1..Len(xvalue) |->
        SetMin({Eval(f.obj, e, pv) : e \in Feasible(f, xvalue[j], pv)})]

\* ------------------------------------------------------- inputs
\* What a caller may pass as M: numbers from -1 up, the Parameters P and Q,
\* the Variable V, and a constant vector.
MInputs ==
    {Number(v) : v \in -1..MaxM} \cup {ParamP, ParamQ, VarV, ConstVec(1)}

\* Declared signs of an argument: <<nonneg, nonpos>> (a leaf declares at most one).
Signs == {<<FALSE, FALSE>>, <<TRUE, FALSE>>, <<FALSE, TRUE>>}

\* The values an entry of an argument with declared sign sg can take.
Domain(sg) ==
    {v \in -MaxVal..MaxVal : (sg[1] => v >= 0) /\ (sg[2] => v <= 0)}

\* The record of a constructor call: the M passed, the exception raised
\* ("None": none) and how many instances the caller got.
NoCall == [op |-> "none", M |-> Number(0), raised |-> "None", made |-> 0]

NoFn ==
    [pc |-> "off", atom |-> <<>>, values |-> <<>>, num |-> <<>>, grad |-> <<>>,
     incr |-> FALSE, decr |-> FALSE, frame |-> <<>>, opt |-> <<>>]

\* ------------------------------------------ SpecFn: the atom as a function
\* One atom, built by the constructor from any input that passes it, and one
\* concrete value of its argument within the argument's declared sign.
InitFn ==
    /\ counter = FirstFreeId
    /\ atoms = <<>>
    /\ last = NoCall
    /\ frames = <<>>
    /\ \E r \in 1..MaxRows, sg \in Signs, M \in MInputs :
          LET made == huber_init(X(r, sg[1], sg[2]), M)
          IN  /\ made.raised = "None"
              /\ param_value \in (IF made.atom[1].M.kind = "Parameter"
                                   THEN 0..MaxM ELSE {0})
              /\ \E v \in [1..r -> Domain(sg)] :
                    fn = [NoFn EXCEPT !.pc = "built", !.atom = made.atom[1],
                                      !.values = <<v>>]

\* evaluate: atom.numeric(values)
FnNumeric ==
    /\ fn.pc = "built"
    /\ fn' = [fn EXCEPT !.pc = "numeric",
                         !.num = numeric(fn.atom, param_value, fn.values)]
    /\ UNCHANGED <<counter, atoms, param_value, last, frames>>

\* The monotonicity queries is_incr(0), is_decr(0), asked after an evaluation.
FnMonotone ==
    /\ fn.pc = "numeric"
    /\ fn' = [fn EXCEPT !.pc = "monotone",
                         !.incr = is_incr(fn.atom, 0),
                         !.decr = is_decr(fn.atom, 0)]
    /\ UNCHANGED <<counter, atoms, param_value, last, frames>>

\* subgradient: atom._grad(values)
FnGrad ==
    /\ fn.pc = "built"
    /\ fn' = [fn EXCEPT !.pc = "grad",
                         !.grad = _grad(fn.atom, param_value, fn.values)]
    /\ UNCHANGED <<counter, atoms, param_value, last, frames>>

\* reduce: graph_implementation on the atom's argument, shape and data.
FnReduce ==
    /\ fn.pc = "built"
    /\ fn' = [fn EXCEPT !.pc = "reduced",
                         !.frame = graph_implementation(
                                       <<LinExprOf(fn.atom.args[1])>>, fn.atom.shape,
                                       get_data(fn.atom), param_value, counter)]
    /\ counter' = counter + 4
    /\ UNCHANGED <<atoms, param_value, last, frames>>

\* The solver's answer for the reduced problem at the argument's value.
FnSolve ==
    /\ fn.pc = "reduced"
    /\ fn' = [fn EXCEPT !.pc = "solved",
                         !.opt = OptimalValue(fn.frame, fn.values[1], param_value)]
    /\ UNCHANGED <<counter, atoms, param_value, last, frames>>

NextFn == FnNumeric \/ FnMonotone \/ FnGrad \/ FnReduce \/ FnSolve

SpecFn == InitFn /\ [][NextFn]_vars

\* ------------------------------------------- Spec: the life of the atoms
\* The arguments a caller passes as x: a scalar and a column Variable.
ArgVars == {X(1, FALSE, FALSE), X(MaxRows, FALSE, FALSE)}

Init ==
    /\ counter = FirstFreeId
    /\ atoms = <<>>
    /\ param_value = 0
    /\ last = NoCall
    /\ frames = <<>>
    /\ fn = NoFn

\* huber(x, M): the constructor call.  On an exception no atom comes to exist.
Construct(x, M) ==
    /\ Len(atoms) < MaxAtoms
    /\ LET made == huber_init(x, M)
       IN  /\ last' = [op |-> "huber", M |-> M, raised |-> made.raised,
                       made |-> Len(made.atom)]
           /\ atoms' = atoms \o made.atom
           /\ frames' = frames \o [i \in 1..Len(made.atom) |-> IdleFrame]
    /\ UNCHANGED <<counter, param_value, fn>>

\* P.value = v (the Parameter is declared nonneg and refuses other values).
SetParam(v) ==
    /\ v >= 0
    /\ v # param_value
    /\ param_value' = v
    /\ UNCHANGED <<counter, atoms, last, frames, fn>>

\* The compiler reduces atom i (once): graph_implementation on the atom's
\* argument, shape and get_data().
Reduce(i) ==
    /\ frames[i].pc = "idle"
    /\ frames' = [frames EXCEPT ![i] =
                     graph_implementation(<<LinExprOf(atoms[i].args[1])>>,
                                          atoms[i].shape, get_data(atoms[i]),
                                          param_value, counter)]
    /\ counter' = counter + 4
    /\ UNCHANGED <<atoms, param_value, last, fn>>

Next ==
    \/ \E x \in ArgVars, M \in MInputs : Construct(x, M)
    \/ \E v \in 0..MaxM : SetParam(v)
    \/ \E i \in 1..Len(atoms) : Reduce(i)

Spec == Init /\ [][Next]_vars

\* ---------------------------- SpecConc: reductions running side by side
\* MaxAtoms atoms already built (atom i on the Variable of ((i-1) mod MaxRows)+1
\* rows; M the number 1 for odd i, the Parameter P for even i), each reduced
\* once, the calls interleaved at every draw from the id allocator.
BuiltAtom(i) ==
    huber_init(X(((i - 1) % MaxRows) + 1, FALSE, FALSE),
               IF i % 2 = 1 THEN Number(1) ELSE ParamP).atom[1]

InitConc ==
    /\ counter = FirstFreeId
    /\ atoms = [i \in 1..MaxAtoms |-> BuiltAtom(i)]
    /\ param_value = 1
    /\ last = NoCall
    /\ frames = [i \in 1..MaxAtoms |-> IdleFrame]
    /\ fn = NoFn

\* The call for atom i begins and draws the id of n.
CallCreateN(i) ==
    /\ frames[i].pc = "idle"
    /\ frames' = [frames EXCEPT ![i] =
                     gi_create_n(gi_enter(<<LinExprOf(atoms[i].args[1])>>,
                                          atoms[i].shape, get_data(atoms[i])),
                                 counter)]
    /\ counter' = counter + 1
    /\ UNCHANGED <<atoms, param_value, last, fn>>

CallCreateS(i) ==
    /\ frames[i].pc = "s"
    /\ frames' = [frames EXCEPT ![i] = gi_create_s(frames[i], counter, param_value)]
    /\ counter' = counter + 1
    /\ UNCHANGED <<atoms, param_value, last, fn>>

CallSquare(i) ==
    /\ frames[i].pc = "sq"
    /\ frames' = [frames EXCEPT ![i] = gi_square(frames[i], counter)]
    /\ counter' = counter + 1
    /\ UNCHANGED <<atoms, param_value, last, fn>>

CallFinish(i) ==
    /\ frames[i].pc = "abs"
    /\ frames' = [frames EXCEPT ![i] = gi_finish(frames[i], counter)]
    /\ counter' = counter + 1
    /\ UNCHANGED <<atoms, param_value, last, fn>>

NextConc ==
    \E i \in 1..MaxAtoms :
        CallCreateN(i) \/ CallCreateS(i) \/ CallSquare(i) \/ CallFinish(i)

SpecConc == InitConc /\ [][NextConc]_vars

\* ------------------------------------------------------------- claims
\* The value of M the atom of fn computes with.
FnM == ValueOf(fn.atom.M, param_value)

\* C1: for every x and M >= 0, numeric returns, entry by entry, x^2 where
\* |x| <= M and 2*M*|x| - M^2 where |x| > M, and at |x| = M the two
\* expressions give the same value.
C1_NumericIsHuber ==
    fn.pc \in {"numeric", "monotone"} =>
        LET x == fn.values[1]
        IN  /\ FnM >= 0
            /\ Len(fn.num) = Len(x)
            /\ \A j \in 1..Len(x) :
                  /\ Abs(x[j]) <= FnM => fn.num[j] = x[j] * x[j]
                  /\ Abs(x[j]) > FnM => fn.num[j] = 2 * FnM * Abs(x[j]) - FnM * FnM
                  /\ Abs(x[j]) = FnM => fn.num[j] = 2 * FnM * Abs(x[j]) - FnM * FnM

\* A vector evaluated with one entry beyond M and the other at the knee.
C1_Witness ==
    /\ fn.pc = "numeric"
    /\ Len(fn.values[1]) = 2
    /\ FnM > 0
    /\ Abs(fn.values[1][1]) > FnM
    /\ Abs(fn.values[1][2]) = FnM
    /\ fn.num[1] # fn.values[1][1] * fn.values[1][1]

\* C3: for every x and constant M >= 0, the minimum of the reduced objective
\* over the splits n + s = x the constraints admit equals numeric(x, M).
C3_ReductionRoundTrip ==
    (fn.pc = "solved" /\ fn.atom.M.kind = "Constant") =>
        /\ fn.atom.M.value >= 0
        /\ fn.opt = numeric(fn.atom, param_value, fn.values)

\* A reduction solved beyond the knee (the linear regime), M > 0.
C3_Witness ==
    /\ fn.pc = "solved"
    /\ fn.atom.M.kind = "Constant"
    /\ fn.atom.M.value = 1
    /\ fn.values[1][1] = MaxVal
    /\ fn.opt[1] = 2 * MaxVal - 1

\* numeric at the single value v, for the atom of fn.
FnAt(v) == numeric(fn.atom, param_value, <<<<v>>>>)[1]

\* C4: for x # 0 and M >= 0 the matrix _grad returns is diagonal with entry
\* 2*sign(x)*min(|x|, M); away from |x| = M that is the derivative of numeric
\* (2x inside, 2*M*sign(x) outside; the central difference of numeric).
C4_GradIsDerivative ==
    fn.pc = "grad" =>
        LET x == fn.values[1]
            G == fn.grad[1]
        IN  /\ Len(fn.grad) = 1
            /\ DOMAIN G = 1..Len(x)
            /\ \A j \in 1..Len(x) :
                  /\ DOMAIN G[j] = 1..Len(x)
                  /\ \A k \in 1..Len(x) : k # j => G[j][k] = 0
                  /\ x[j] # 0 =>
                        /\ G[j][j] = 2 * Sign(x[j]) *
                                      (IF Abs(x[j]) <= FnM THEN Abs(x[j]) ELSE FnM)
                        /\ Abs(x[j]) < FnM => G[j][j] = 2 * x[j]
                        /\ Abs(x[j]) > FnM => G[j][j] = 2 * FnM * Sign(x[j])
                        /\ Abs(x[j]) # FnM =>
                              2 * G[j][j] = FnAt(x[j] + 1) - FnAt(x[j] - 1)

\* A subgradient of a vector with a negative entry beyond M and another
\* nonzero entry.
C4_Witness ==
    /\ fn.pc = "grad"
    /\ Len(fn.values[1]) = 2
    /\ FnM >= 1
    /\ fn.values[1][1] < -FnM
    /\ fn.values[1][2] # 0
    /\ fn.grad[1][1][1] = -2 * FnM
    /\ fn.grad[1][1][2] = 0

\* C5: is_incr(0) holds exactly when the argument is declared nonneg,
\* is_decr(0) exactly when it is declared nonpos, and when one is asserted
\* numeric is non-decreasing (non-increasing) between any two values of the
\* declared sign, for every M >= 0.
C5_MonotoneSound ==
    fn.pc = "monotone" =>
        LET x == fn.values[1]
        IN  /\ fn.incr <=> fn.atom.args[1].nonneg
            /\ fn.decr <=> fn.atom.args[1].nonpos
            /\ fn.incr => \A j, k \in 1..Len(x) :
                              x[j] <= x[k] => fn.num[j] <= fn.num[k]
            /\ fn.decr => \A j, k \in 1..Len(x) :
                              x[j] <= x[k] => fn.num[j] >= fn.num[k]

\* Non-decreasing asserted for a nonneg argument, two values compared.
C5_Witness ==
    /\ fn.pc = "monotone"
    /\ fn.incr
    /\ Len(fn.values[1]) = 2
    /\ fn.values[1][1] < fn.values[1][2]
    /\ fn.num[1] < fn.num[2]

\* C6 as stated: for M = 0 the reduced problem's optimal value at x is that
\* of least squares, x^2.
C6_LeastSquaresAtZero ==
    (fn.pc = "solved" /\ FnM = 0) =>
        \A j \in 1..Len(fn.opt) : fn.opt[j] = fn.values[1][j] * fn.values[1][j]

\* C6 amended: for M = 0 the reduction completes, its objective is n^2 + 0
\* on every admitted assignment, and the optimal value is 0 for every x,
\* which is numeric(x, 0).
C6_ZeroAtZero ==
    (fn.pc = "solved" /\ FnM = 0) =>
        /\ fn.frame.pc = "done"
        /\ fn.opt = numeric(fn.atom, param_value, fn.values)
        /\ \A j \in 1..Len(fn.opt) :
              /\ fn.opt[j] = 0
              /\ \A e \in Feasible(fn.frame, fn.values[1][j], param_value) :
                    Eval(fn.frame.obj, e, param_value) = e[fn.frame.n2.data]

\* A reduction with M = 0 solved at a nonzero x.
C6_Witness ==
    /\ fn.pc = "solved"
    /\ FnM = 0
    /\ fn.atom.M.kind = "Constant"
    /\ fn.values[1][1] # 0
    /\ fn.opt[1] = 0

\* The three ways the claim names for M to be malformed.
NegativeM(M) == M.kind \in {"Number", "Constant"} /\ M.value < 0

NonConstantM(M) == M.kind = "Variable"

NonScalarM(M) == M.shape # <<1, 1>>

\* M is a nonnegative scalar constant (a literal >= 0 or a Parameter declared
\* nonneg).
WellFormedM(M) ==
    /\ M.kind \in {"Constant", "Parameter"}
    /\ M.shape = <<1, 1>>
    /\ M.kind = "Constant" => M.value >= 0
    /\ M.kind = "Parameter" => M.nonneg

\* C2: a constructor call with a negative M, a non-constant M or a non-scalar
\* M raises the validation error (ValueError in the source) and hands the
\* caller no instance; every atom that exists has a well-formed M.
C2_InvalidMRejected ==
    /\ (last.op = "huber" /\
          (NegativeM(last.M) \/ NonConstantM(last.M) \/ NonScalarM(last.M)))
            => (last.raised = ValidationError /\ last.made = 0)
    /\ last.raised # "None" => last.made = 0
    /\ Len(frames) = Len(atoms)
    /\ \A i \in 1..Len(atoms) : WellFormedM(atoms[i].M)

\* The constructor has just refused the non-scalar M while an atom exists.
C2_Witness ==
    /\ last.op = "huber"
    /\ NonScalarM(last.M)
    /\ last.raised = ValidationError
    /\ Len(atoms) = 1

\* The ids of the auxiliary variables frame f has drawn so far, in order.
AuxOps(f) ==
    SelectSeq(<<f.n, f.s, f.n2, f.abs_s>>, LAMBDA v : v.type = "variable")

\* The ids of the leaves that exist before any reduction.
LeafIds == (1..MaxRows) \cup {PId, QId, VId}

\* C7: however the reductions interleave, every auxiliary variable drawn has
\* an id different from every other one's (of the same and of every other
\* reduction) and from the ids of the argument expressions' variables; n and
\* s have the atom's shape and are the two variables the reduction links to
\* x; and the atoms and their arguments stay as built.
C7_FreshAuxiliaries ==
    /\ \A i, j \in 1..Len(frames) :
          \A a \in 1..Len(AuxOps(frames[i])), b \in 1..Len(AuxOps(frames[j])) :
              (<<i, a>> # <<j, b>>) =>
                  AuxOps(frames[i])[a].data # AuxOps(frames[j])[b].data
    /\ \A i \in 1..Len(frames) :
          LET f == frames[i]
          IN  /\ \A a \in 1..Len(AuxOps(f)) : AuxOps(f)[a].data \notin LeafIds
              /\ f.n.type = "variable" => f.n.shape = atoms[i].shape
              /\ f.s.type = "variable" => f.s.shape = atoms[i].shape
              /\ f.pc # "idle" => f.x = LinExprOf(atoms[i].args[1])
              /\ f.pc = "done" =>
                    /\ Len(AuxOps(f)) = 4
                    /\ Cardinality({f.n.data, f.s.data}) = 2
                    /\ VarsOf(f.constraints[Len(f.constraints)].rhs)
                           = {f.n.data, f.s.data}
    /\ atoms = [i \in 1..MaxAtoms |-> BuiltAtom(i)]

\* Two reductions finished whose draws interleaved.
C7_Witness ==
    /\ frames[1].pc = "done"
    /\ frames[2].pc = "done"
    /\ frames[1].n.data < frames[2].n.data
    /\ frames[2].n.data < frames[1].s.data
    /\ frames[1].s.data < frames[2].s.data

\* Frame f's graph with its own auxiliary variables renamed to -1..-4.
RECURSIVE Rename(_, _)
Rename(e, rho) ==
    IF e.type = "variable"
    THEN IF e.data \in DOMAIN rho THEN [e EXCEPT !.data = rho[e.data]] ELSE e
    ELSE [e EXCEPT !.args = [k \in 1..Len(e.args) |-> Rename(e.args[k], rho)]]

Canon(f) ==
    LET rho == (f.n.data :> -1) @@ (f.s.data :> -2) @@
               (f.n2.data :> -3) @@ (f.abs_s.data :> -4)
    IN  [obj |-> Rename(f.obj, rho),
         constraints |->
             [k \in 1..Len(f.constraints) |->
                 [f.constraints[k] EXCEPT !.lhs = Rename(@, rho),
                                          !.rhs = Rename(@, rho)]]]

\* C8: a finished reduction returns the objective n2 + 2*(M*abs_s) and the
\* square's constraints, then the absolute value's, then the one equality
\* x = n + s, last; equal inputs give the same graph (up to the ids drawn).
C8_ObjectiveAndConstraintOrder ==
    /\ \A i \in 1..Len(frames) :
          LET f == frames[i]
              nsq == Len(f.constr_sq)
              nabs == Len(f.constr_abs)
          IN  f.pc = "done" =>
                /\ f.obj = LinOp("sum", f.shape,
                                  <<f.n2, LinOp("mul", f.shape,
                                      <<f.two, LinOp("mul", f.shape,
                                                     <<f.M, f.abs_s>>, 0)>>, 0)>>, 0)
                /\ f.two = LinOp("scalar_const", <<1, 1>>, <<>>, 2)
                /\ f.constr_sq =
                      power_graph_implementation(<<f.n>>, f.shape, f.n2.data).constr
                /\ f.constr_abs =
                      abs_graph_implementation(<<f.s>>, f.shape, f.abs_s.data).constr
                /\ Len(f.constraints) = nsq + nabs + 1
                /\ \A k \in 1..nsq : f.constraints[k] = f.constr_sq[k]
                /\ \A k \in 1..nabs : f.constraints[nsq + k] = f.constr_abs[k]
                /\ f.constraints[nsq + nabs + 1] =
                      [ctype |-> "eq", lhs |-> f.x,
                       rhs |-> LinOp("sum", f.shape, <<f.n, f.s>>, 0)]
                /\ \A k \in 1..(nsq + nabs) : f.constraints[k].ctype # "eq"
    /\ \A i, j \in 1..Len(frames) :
          (/\ frames[i].pc = "done" /\ frames[j].pc = "done"
           /\ frames[i].x = frames[j].x /\ frames[i].data = frames[j].data
           /\ frames[i].seen = frames[j].seen)
              => Canon(frames[i]) = Canon(frames[j])

\* Two atoms built from the same inputs, both reduced, the argument a vector.
C8_Witness ==
    /\ Len(frames) = 2
    /\ frames[1].pc = "done"
    /\ frames[2].pc = "done"
    /\ frames[1].x = frames[2].x
    /\ frames[1].data = frames[2].data
    /\ frames[1].seen = frames[2].seen
    /\ frames[1].shape = <<MaxRows, 1>>
    /\ Len(frames[1].constraints) = 4

\* C9: the M term of a reduction is a 1x1 reference to the Parameter when M
\* is a Parameter and a 1x1 literal of M's value otherwise; two reductions
\* of the same argument with the same Parameter give the same graph (up to
\* the ids drawn) whatever the Parameter's value was when each ran.
C9_ParameterStaysSymbolic ==
    /\ \A i \in 1..Len(frames) :
          LET f == frames[i]
          IN  f.pc = "done" =>
                /\ f.data.kind = "Parameter" =>
                      f.M = LinOp("param", <<1, 1>>, <<>>, f.data.id)
                /\ f.data.kind # "Parameter" =>
                      f.M = LinOp("scalar_const", <<1, 1>>, <<>>, f.data.value)
    /\ \A i, j \in 1..Len(frames) :
          (/\ frames[i].pc = "done" /\ frames[j].pc = "done"
           /\ frames[i].data.kind = "Parameter"
           /\ frames[i].data = frames[j].data /\ frames[i].x = frames[j].x)
              => Canon(frames[i]) = Canon(frames[j])

\* Two reductions with the Parameter as M, run under different values of it.
C9_Witness ==
    /\ Len(frames) = 2
    /\ frames[1].pc = "done"
    /\ frames[2].pc = "done"
    /\ frames[1].data.kind = "Parameter"
    /\ frames[1].data = frames[2].data
    /\ frames[1].x = frames[2].x
    /\ frames[1].seen # frames[2].seen

\* C10: every call of the reducer is for an atom that passed validation: the
\* M it receives is the atom's, a nonnegative scalar constant; the call runs
\* to its return, and only the constructor ever raises.
C10_ReducerAfterValidation ==
    /\ \A i \in 1..Len(frames) :
          frames[i].pc # "idle" =>
              /\ i <= Len(atoms)
              /\ frames[i].data = atoms[i].M
              /\ WellFormedM(frames[i].data)
              /\ frames[i].pc = "done"
    /\ last.raised # "None" => last.op = "huber"

\* A reduction has run for an atom whose M is the literal 0, and another
\* for one whose M is the Parameter.
C10_Witness ==
    /\ Len(frames) = 2
    /\ frames[1].pc = "done"
    /\ frames[1].data.kind = "Constant"
    /\ frames[1].data.value = 0
    /\ frames[2].pc = "done"
    /\ frames[2].data.kind = "Parameter"

====
